---- MODULE Spec2Model ----
(***************************************************************************)
(* A model of the regularize pattern builder (src/regularize).             *)
(*                                                                         *)
(* Part 1: Expression / Pattern / FlagSet (expression.py, flag.py).        *)
(*   Pattern objects live in a heap `pats`; a Pattern's _flags field is    *)
(*   either None (0) or a reference into the heap `fsets` of FlagSet       *)
(*   objects, so that sharing of a FlagSet between two Patterns would be   *)
(*   visible.  Metacharacter tokens (OpeningBracket, ClosingBracket, Or)   *)
(*   carry an object identity `id`, because Metacharacter defines no       *)
(*   __eq__ and Python compares such objects by identity; text tokens are  *)
(*   str values and have id 0.                                             *)
(*   A Pattern's _extensions field is None or its ExtensionRegistry; a    *)
(*   registry belongs to one Pattern only, so it is kept by value in the   *)
(*   Pattern, and the Pattern it is bound to is a reference into `pats`.   *)
(* Part 2: Cache (find.py).                                                *)
(* Part 3: Substitution (replace.py).                                      *)
(***************************************************************************)
EXTENDS Integers, Sequences, FiniteSets, TLC

VARIABLES pats, fsets, ret, cap, registered, cache, stats, maxsize, touched, cret,
          stack, lru, sret

vars == <<pats, fsets, ret, cap, registered, cache, stats, maxsize, touched, cret,
          stack, lru, sret>>
patternVars == <<pats, fsets, ret, cap, registered>>
cacheVars == <<cache, stats, maxsize, touched, cret>>
substitutionVars == <<stack, lru, sret>>

(***************************************************************************)
(* Bounds of the model.                                                    *)
(***************************************************************************)
\* Pattern objects the caller holds at the same time (cap): in chains of all
\* operations, and in chains of the bracket operations.
MaxPats == 3
MaxBracketPats == 4
\* Pattern objects held at the same time in chains with extensions.
MaxExtPats == 2
\* Largest minimum / maximum handed to any_number_between.
MaxNumber == 10
\* Fragments added to one Substitution.
MaxFragments == 3
\* Longest list of subpatterns handed to Pattern.join.
MaxJoin == 3
\* Registrations of extension factories made in one run.
MaxRegistrations == 2
\* Largest finite minimum / maximum handed to quantify.
MaxQuantify == 3
\* Largest maxsize a Cache is constructed with.
MaxCacheSize == 2
\* Number of cache touches (insertions and get hits) recorded in one run.
MaxTouches == 4

(***************************************************************************)
(* Program constants.                                                      *)
(***************************************************************************)
\* math.inf, the default maximum of quantify; never equal to an int >= 0.
Inf == -1
\* Cache.DEFAULT_MAXIMUM_SIZE
DEFAULT_MAXIMUM_SIZE == 1000
\* re.IGNORECASE, re.MULTILINE, re.DOTALL, re.ASCII
IGNORECASE == 2
MULTILINE == 8
DOTALL == 16
ASCII == 256

Flags == {IGNORECASE, MULTILINE, DOTALL, ASCII}

(***************************************************************************)
(* Generic helpers.                                                        *)
(***************************************************************************)
Last(s) == s[Len(s)]
Front(s) == SubSeq(s, 1, Len(s) - 1)
Max2(a, b) == IF a >= b THEN a ELSE b

RECURSIVE JoinStr(_)
\* ''.join(strings)
JoinStr(ss) == IF ss = <<>> THEN "" ELSE Head(ss) \o JoinStr(Tail(ss))

DigitChars == <<"0", "1", "2", "3", "4", "5", "6", "7", "8", "9">>

RECURSIVE Dec(_)
\* str(n) of a non-negative int, as the f-string renders it
Dec(n) == IF n < 10 THEN DigitChars[n + 1] ELSE Dec(n \div 10) \o DigitChars[(n % 10) + 1]

(***************************************************************************)
(* Tokens.                                                                 *)
(***************************************************************************)
Str(s) == [k |-> "str", s |-> s, id |-> 0]
OpeningBracket(id) == [k |-> "open", s |-> "[", id |-> id]
ClosingBracket(id) == [k |-> "close", s |-> "]", id |-> id]
Or(id) == [k |-> "or", s |-> "|", id |-> id]

\* str(token)
TokenStr(t) == t.s

\* isinstance(item, OpeningBracket) / isinstance(item, ClosingBracket)
IsOpeningBracket(t) == t.k = "open"
IsClosingBracket(t) == t.k = "close"

\* == on two tokens: str compares by value, a Metacharacter by identity
TokenEq(a, b) ==
    IF a.k = "str" /\ b.k = "str" THEN a.s = b.s
    ELSE a.k # "str" /\ b.k # "str" /\ a.id = b.id

RECURSIVE DequeEq(_, _)
\* deque.__eq__: same length and pairwise equal elements
DequeEq(s, t) ==
    IF Len(s) # Len(t) THEN FALSE
    ELSE IF s = <<>> THEN TRUE
    ELSE TokenEq(Head(s), Head(t)) /\ DequeEq(Tail(s), Tail(t))

(***************************************************************************)
(* The machine state an operation works on: the two heaps, the next free   *)
(* Metacharacter identity, the value returned by the last call (r) and the *)
(* exception raised, if any.                                               *)
(***************************************************************************)
NoError == "none"

RECURSIVE MaxId(_)
MaxId(toks) == IF toks = <<>> THEN 0 ELSE Max2(Head(toks).id, MaxId(Tail(toks)))

RECURSIVE MaxIdOfPats(_)
MaxIdOfPats(ps) ==
    IF ps = <<>> THEN 0
    ELSE Max2(Max2(MaxId(Head(ps).token_stack), MaxId(Head(ps).bracket_stack)),
              MaxIdOfPats(Tail(ps)))

Machine(ps, fs) == [pats |-> ps, fsets |-> fs, fresh |-> MaxIdOfPats(ps) + 1,
                    r |-> 0, err |-> NoError]

Raise(m, e) == [m EXCEPT !.err = e, !.r = 0]
Return(m, v) == [m EXCEPT !.r = v]
\* a new Metacharacter instance was created
Allocated(m) == [m EXCEPT !.fresh = @ + 1]

(***************************************************************************)
(* FlagSet (flag.py).                                                      *)
(***************************************************************************)
\* FlagSet(): a new object with an empty option set; returns its reference
FlagSet_init(m) ==
    [m EXCEPT !.fsets = Append(@, {}), !.r = Len(m.fsets) + 1]

FlagSet_copy_shared(m, f) == Return(m, f)

\* FlagSet.copy: a new FlagSet whose options are updated from self.options
FlagSet_copy(m, f) ==
    LET m1 == FlagSet_init(m)
    IN  [m1 EXCEPT !.fsets[m1.r] = @ \cup m.fsets[f]]

\* _add_option: set.add
add_option(m, f, flag) == [m EXCEPT !.fsets[f] = @ \cup {flag}]

\* _remove_option: set.remove raises KeyError when the flag is absent
remove_option(m, f, flag) ==
    IF flag \in m.fsets[f]
    THEN [m EXCEPT !.fsets[f] = @ \ {flag}]
    ELSE Raise(m, "KeyError")

update_option(m, f, flag, enabled) ==
    IF enabled THEN add_option(m, f, flag) ELSE remove_option(m, f, flag)

RECURSIVE BitOr(_, _)
\* operator.or_ on non-negative ints
BitOr(a, b) ==
    IF a = 0 THEN b
    ELSE IF b = 0 THEN a
    ELSE Max2(a % 2, b % 2) + 2 * BitOr(a \div 2, b \div 2)

RECURSIVE ReduceOr(_, _)
\* reduce(or_, options, acc)
ReduceOr(options, acc) ==
    IF options = {} THEN acc
    ELSE LET x == CHOOSE y \in options : TRUE
         IN  ReduceOr(options \ {x}, BitOr(acc, x))

RECURSIVE ReduceSkipFirst(_, _)
ReduceSkipFirst(options, acc) ==
    IF options = {} THEN acc
    ELSE LET x == CHOOSE y \in options : \A z \in options : y <= z
         IN  ReduceOr(options \ {x}, acc)

FlagSet_compile_dropping(options) == ReduceSkipFirst(options, 0)

\* FlagSet.compile
FlagSet_compile(options) == IF options # {} THEN ReduceOr(options, 0) ELSE 0

(***************************************************************************)
(* Expression (expression.py).  Every operator takes the machine state and *)
(* returns it updated, with the call's return value in r.                  *)
(***************************************************************************)
\* a dict with no key
EmptyDict == [n \in {} |-> 0]

\* dict[key] = value
DictSet(d, key, value) ==
    [n \in DOMAIN d \cup {key} |-> IF n = key THEN value ELSE d[n]]

\* _extensions = None
NoRegistry == [pattern |-> 0]

\* ExtensionRegistry.__init__
ExtensionRegistry_init(pattern) ==
    [registry |-> EmptyDict, pattern |-> pattern,
     callbacks_initialized |-> FALSE, callbacks |-> EmptyDict]

\* ExtensionRegistry.clone: a registry of the same Pattern, with no entry
ExtensionRegistry_clone(reg) == ExtensionRegistry_init(reg.pattern)

NewObject == [token_stack |-> <<>>, bracket_stack |-> <<>>, flags |-> 0,
              extensions |-> NoRegistry]

\* the ext / extensions property: creates the registry on first use
Pattern_ext(m, self) ==
    IF m.pats[self].extensions = NoRegistry
    THEN [m EXCEPT !.pats[self].extensions = ExtensionRegistry_init(self)]
    ELSE m

\* Pattern._copy_state, with Expression._copy_state
copy_state(m, self, other, clear) ==
    LET m1 == [m EXCEPT !.pats[self].bracket_stack =
                            (IF clear THEN <<>> ELSE @) \o m.pats[other].bracket_stack,
                        !.pats[self].token_stack =
                            (IF clear THEN <<>> ELSE @) \o m.pats[other].token_stack]
        m2 == Pattern_ext(m1, other)
    IN  [m2 EXCEPT !.pats[self].extensions =
                       ExtensionRegistry_clone(m2.pats[other].extensions)]

\* Pattern.__init__ / Expression.__init__; parent = 0 stands for None
Expression_init(m, parent) ==
    LET new == Len(m.pats) + 1
        m1 == [m EXCEPT !.pats = Append(@, NewObject)]
        m2 == IF parent # 0 THEN copy_state(m1, new, parent, TRUE) ELSE m1
    IN  Return(m2, new)

\* the flags property: creates the FlagSet on first use
Pattern_flags(m, self) ==
    IF m.pats[self].flags = 0
    THEN LET m1 == FlagSet_init(m)
         IN  [m1 EXCEPT !.pats[self].flags = m1.r]
    ELSE Return(m, m.pats[self].flags)

\* Pattern._on_after_clone
on_after_clone(m, self, new) ==
    LET m1 == Pattern_flags(m, self)
        m2 == FlagSet_copy(m1, m1.r)
        m3 == Pattern_ext([m2 EXCEPT !.pats[new].flags = m2.r], self)
    IN  [m3 EXCEPT !.pats[new].extensions =
                       ExtensionRegistry_clone(m3.pats[self].extensions)]

\* Expression.clone
clone(m, self) ==
    LET m1 == Expression_init(m, self)
        new == m1.r
    IN  Return(on_after_clone(m1, self, new), new)

\* Expression.has_open_bracket, on a bracket stack
HasOpen(bracket_stack) ==
    IF bracket_stack = <<>> THEN FALSE ELSE IsOpeningBracket(Last(bracket_stack))

has_open_bracket(m, self) == HasOpen(m.pats[self].bracket_stack)

RECURSIVE UpdateBrackets_without_pop(_, _)
UpdateBrackets_without_pop(bracket_stack, append) ==
    IF append = <<>> THEN bracket_stack
    ELSE LET item == Head(append)
             next == IF IsOpeningBracket(item) THEN Append(bracket_stack, item)
                     ELSE bracket_stack
         IN  UpdateBrackets_without_pop(next, Tail(append))

RECURSIVE UpdateBrackets(_, _)
\* the loop of clone_with_updates over the appended items
UpdateBrackets(bracket_stack, append) ==
    IF append = <<>> THEN bracket_stack
    ELSE LET item == Head(append)
             next == IF IsClosingBracket(item)
                     THEN (IF HasOpen(bracket_stack) THEN Front(bracket_stack)
                           ELSE bracket_stack)
                     ELSE IF IsOpeningBracket(item) THEN Append(bracket_stack, item)
                     ELSE bracket_stack
         IN  UpdateBrackets(next, Tail(append))

\* Expression.clone_with_updates; append / prepend are token sequences
\* (None and a single item are turned into sequences by the caller)
clone_with_updates(m, self, append, prepend) ==
    IF m.err # NoError THEN m
    ELSE LET m1 == clone(m, self)
             c == m1.r
         IN  [m1 EXCEPT !.pats[c].token_stack = prepend \o @ \o append,
                        !.pats[c].bracket_stack = UpdateBrackets(@, append)]

close_bracket_cloning(m, self) ==
    IF m.err # NoError THEN m
    ELSE IF ~has_open_bracket(m, self) THEN clone_with_updates(m, self, <<>>, <<>>)
    ELSE clone_with_updates(Allocated(m), self, <<ClosingBracket(m.fresh)>>, <<>>)

\* Expression.close_bracket
close_bracket(m, self) ==
    IF m.err # NoError THEN m
    ELSE IF ~has_open_bracket(m, self) THEN Return(m, self)
    ELSE LET bs == m.pats[self].bracket_stack
             last_item_in_stack == IF bs # <<>> THEN <<Last(bs)>> ELSE <<>>
         IN  IF last_item_in_stack = <<>> \/ ~IsOpeningBracket(last_item_in_stack[1])
             THEN Raise(m, "RuntimeError")
             ELSE clone_with_updates(Allocated(m), self, <<ClosingBracket(m.fresh)>>, <<>>)

\* Expression._prepare_for_build
prepare_for_build(m, self) == close_bracket(m, self)

TokenStrs(tokens) == [j \in 1..Len(tokens) |-> TokenStr(tokens[j])]

\* Expression.build: r is the string, the prepared expression stays in the heap
build(m, self) ==
    LET m1 == prepare_for_build(m, self)
    IN  IF m1.err # NoError THEN m1
        ELSE Return(m1, JoinStr(TokenStrs(m1.pats[m1.r].token_stack)))

Expression_add_without_brackets(m, self, other) ==
    IF m.err # NoError THEN m
    ELSE LET m1 == Expression_init(m, self)
             new == m1.r
             m2 == copy_state(m1, new, other, FALSE)
         IN  Return([m2 EXCEPT !.pats[new].bracket_stack = m1.pats[new].bracket_stack],
                    new)

\* Expression.__add__
Expression_add(m, self, other) ==
    IF m.err # NoError THEN m
    ELSE LET m1 == Expression_init(m, self)
             new == m1.r
         IN  Return(copy_state(m1, new, other, FALSE), new)

\* Pattern.__eq__: r is the boolean
Pattern_eq(m, self, other) ==
    LET m1 == Pattern_flags(m, self)
        f1 == m1.r
        m2 == Pattern_flags(m1, other)
        f2 == m2.r
    IN  Return(m2, m2.fsets[f1] = m2.fsets[f2]
                   /\ DequeEq(m2.pats[self].token_stack, m2.pats[other].token_stack))

(***************************************************************************)
(* Pattern (expression.py).  Text handed to literal and members handed to  *)
(* any_of / none_of are sequences of one-character strings.                *)
(***************************************************************************)
\* characters re.escape puts a backslash before (those the model uses)
SpecialChars == {".", "-", "[", "]", "^", "|", "(", ")", "*", "+", "?", "$"}

RECURSIVE re_escape(_)
\* re.escape(string)
re_escape(chars) ==
    IF chars = <<>> THEN ""
    ELSE (IF Head(chars) \in SpecialChars THEN "\\" \o Head(chars) ELSE Head(chars))
         \o re_escape(Tail(chars))

\* the quantifier of the older variant (regex_composer), without the '?' rule
quantifier_without_optional(minimum, maximum) ==
    IF minimum = 0 /\ maximum = Inf THEN <<Str("*")>>
    ELSE IF minimum = 1 /\ maximum = Inf THEN <<Str("+")>>
    ELSE IF minimum = maximum THEN <<Str("{" \o Dec(minimum) \o "}")>>
    ELSE IF minimum > 1 /\ maximum = Inf THEN <<Str("{" \o Dec(minimum) \o ",}")>>
    ELSE IF maximum # Inf THEN <<Str("{" \o Dec(minimum) \o "," \o Dec(maximum) \o "}")>>
    ELSE <<>>

\* the if-chain of Pattern.quantify: the appended items (<<>> for addition = None)
quantifier(minimum, maximum) ==
    IF minimum = 0 /\ maximum = Inf THEN <<Str("*")>>
    ELSE IF minimum = 0 /\ maximum = 1 THEN <<Str("?")>>
    ELSE IF minimum = 1 /\ maximum = Inf THEN <<Str("+")>>
    ELSE IF minimum = maximum THEN <<Str("{" \o Dec(minimum) \o "}")>>
    ELSE IF minimum > 1 /\ maximum = Inf THEN <<Str("{" \o Dec(minimum) \o ",}")>>
    ELSE IF maximum # Inf THEN <<Str("{" \o Dec(minimum) \o "," \o Dec(maximum) \o "}")>>
    ELSE <<>>

\* Pattern.quantify
quantify(m, self, minimum, maximum) ==
    LET addition == quantifier(minimum, maximum)
        m1 == close_bracket(m, self)
    IN  clone_with_updates(m1, m1.r, addition, <<>>)

\* Group.__call__; name is <<>> for None, <<text>> otherwise
Group_call(m, self, name, optional) ==
    LET add_right == <<Str(")")>> \o (IF optional THEN <<Str("?")>> ELSE <<>>)
        add_left == <<Str("(")>>
                    \o (IF name # <<>> THEN <<Str("?P<" \o name[1] \o ">")>> ELSE <<>>)
        m1 == close_bracket(m, self)
    IN  clone_with_updates(m1, m1.r, add_right, add_left)

\* Pattern.group; wrapped = 0 stands for None
group(m, self, name, optional, wrapped) ==
    IF m.err # NoError THEN m
    ELSE LET wrapped_pattern == IF wrapped = 0 THEN self ELSE wrapped
             m1 == Expression_init(m, wrapped_pattern)
             m2 == Group_call(m1, m1.r, name, optional)
         IN  IF wrapped = 0 THEN m2 ELSE Expression_add(m2, self, m2.r)

\* Pattern.__or__
Pattern_or(m, self, other) ==
    LET m1 == clone_with_updates(Allocated(m), self, <<Or(m.fresh)>>, <<>>)
        m2 == Expression_add(m1, m1.r, other)
    IN  group(m2, m2.r, <<>>, FALSE, 0)

\* Literal.__call__ on Literal(self)
literal(m, self, chars) ==
    LET m1 == Expression_init(m, self)
    IN  clone_with_updates(m1, m1.r, <<Str(re_escape(chars))>>, <<>>)

\* Whitespace.__call__ on Whitespace(self)
whitespace(m, self, match) ==
    LET m1 == Expression_init(m, self)
    IN  clone_with_updates(m1, m1.r, <<Str(IF match THEN "\\s" ELSE "\\S")>>, <<>>)

\* Range.__call__
Range_call(m, self, start, end, closed, negated, skip_brackets) ==
    LET start1 == IF negated THEN "^" \o start ELSE start
        opens == ~has_open_bracket(m, self) /\ ~skip_brackets
        closes == closed /\ ~skip_brackets
        m1 == IF opens THEN Allocated(m) ELSE m
        m2 == IF closes THEN Allocated(m1) ELSE m1
        additions == (IF opens THEN <<OpeningBracket(m.fresh)>> ELSE <<>>)
                     \o <<Str(start1 \o "-" \o end)>>
                     \o (IF closes THEN <<ClosingBracket(m1.fresh)>> ELSE <<>>)
    IN  clone_with_updates(m2, self, additions, <<>>)

\* AsciiLetterCharacter.__call__ on AsciiLetterCharacter(self)
ascii_letters(m, self, lowercase, closed, negated, skip_brackets) ==
    LET m1 == Expression_init(m, self)
        start == IF lowercase THEN "a" ELSE "A"
        end == IF lowercase THEN "z" ELSE "Z"
    IN  Range_call(m1, m1.r, start, end, closed, negated, skip_brackets)

any_number_between_unbounded(m, self, minimum, maximum, closed, negated, skip_brackets) ==
    LET m1 == Expression_init(m, self)
    IN  IF minimum >= maximum \/ minimum < 0
        THEN Raise(m1, "InvalidRangeError")
        ELSE Range_call(m1, m1.r, Dec(minimum), Dec(maximum), closed, negated,
                        skip_brackets)

\* Number.__call__ on Number(self)
any_number_between(m, self, minimum, maximum, closed, negated, skip_brackets) ==
    LET m1 == Expression_init(m, self)
    IN  IF minimum >= maximum \/ minimum < 0 \/ maximum > 9
        THEN Raise(m1, "InvalidRangeError")
        ELSE Range_call(m1, m1.r, Dec(minimum), Dec(maximum), closed, negated,
                        skip_brackets)

\* Pattern.raw, Pattern.start_anchor, Pattern.end_anchor
raw(m, self, string) == clone_with_updates(m, self, <<Str(string)>>, <<>>)
start_anchor(m, self) == clone_with_updates(m, self, <<Str("^")>>, <<>>)
end_anchor(m, self) == clone_with_updates(m, self, <<Str("$")>>, <<>>)

\* BracketExpressionPartial.ensure followed by str(): a partial is passed
\* through, anything else becomes Literal()(obj).build(), the escaped text
ensure(member) ==
    IF member.partial THEN JoinStr(member.chars) ELSE re_escape(member.chars)

\* ''.join(map(str, map(BracketExpressionPartial.ensure, members)))
MembersExpression(members) == JoinStr([j \in 1..Len(members) |-> ensure(members[j])])

\* Pattern.any_of
any_of(m, self, members, close) ==
    LET m1 == clone_with_updates(Allocated(m), self, <<OpeningBracket(m.fresh)>>, <<>>)
        m2 == IF members # <<>>
              THEN clone_with_updates(m1, m1.r, <<Str(MembersExpression(members))>>, <<>>)
              ELSE m1
    IN  IF close THEN close_bracket(m2, m2.r) ELSE m2

\* Pattern.none_of
none_of(m, self, members) ==
    LET m1 == clone_with_updates(Allocated(m), self, <<OpeningBracket(m.fresh)>>, <<>>)
    IN  IF members # <<>>
        THEN clone_with_updates(m1, m1.r, <<Str("^" \o MembersExpression(members))>>, <<>>)
        ELSE m1

\* Pattern.case_insensitive / multiline / dot_matches_newline / ascii_only:
\* the clone's FlagSet gets _update_option(flag, enabled)
toggle(m, self, flag, enabled) ==
    LET m1 == clone(m, self)
        c == m1.r
        m2 == Pattern_flags(m1, c)
        m3 == update_option(m2, m2.r, flag, enabled)
    IN  IF m3.err # NoError THEN m3 ELSE Return(m3, c)

RECURSIVE JoinLoop(_, _, _, _)
\* the for loop of Pattern.join: composite = composite + subpattern + delimiter
JoinLoop(m, composite, delimiter, subpatterns) ==
    IF subpatterns = <<>> THEN Return(m, composite)
    ELSE LET m1 == Expression_add(m, composite, Head(subpatterns))
             m2 == Expression_add(m1, m1.r, delimiter)
         IN  JoinLoop(m2, m2.r, delimiter, Tail(subpatterns))

\* Pattern.join(delimiter, subpatterns); the loop runs over subpatterns[:-2]
join(m, delimiter, subpatterns) ==
    LET m1 == Expression_init(m, 0)
        m2 == JoinLoop(m1, m1.r, delimiter,
                       SubSeq(subpatterns, 1, Len(subpatterns) - 2))
    IN  IF subpatterns = <<>> THEN Raise(m2, "IndexError")
        ELSE Expression_add(m2, m2.r, Last(subpatterns))

(***************************************************************************)
(* ExtensionRegistry (expression.py).  A factory is what is registered     *)
(* under a name: a class instantiated with the Pattern of the registry,    *)
(* the instance being the callback.  The factories of the model:           *)
(*   "Tag"         a Pattern subclass whose call returns self.literal('<') *)
(*   "Identity"    keeps the Pattern it was instantiated with, returns it  *)
(*   "NotAPattern" returns a value that is not a Pattern                   *)
(***************************************************************************)
Factories == {"Tag", "Identity", "NotAPattern"}

\* ExtensionRegistry.__setitem__, through pattern.ext[key] = value
setitem(m, self, key, value) ==
    LET m1 == Pattern_ext(m, self)
    IN  [m1 EXCEPT !.pats[self].extensions.registry = DictSet(@, key, value)]

initialize_callbacks_rebinding(reg) ==
    [reg EXCEPT
        !.callbacks = [n \in DOMAIN reg.callbacks \cup DOMAIN reg.registry |->
                          IF n \in DOMAIN reg.registry
                          THEN [factory |-> reg.registry[n], pattern |-> reg.pattern]
                          ELSE reg.callbacks[n]],
        !.callbacks_initialized = TRUE]

\* ExtensionRegistry._initialize_callbacks: callbacks[name] = klass(_pattern)
initialize_callbacks(reg) ==
    IF reg.callbacks_initialized THEN reg
    ELSE [reg EXCEPT
             !.callbacks = [n \in DOMAIN reg.callbacks \cup DOMAIN reg.registry |->
                               IF n \in DOMAIN reg.registry
                               THEN [factory |-> reg.registry[n], pattern |-> reg.pattern]
                               ELSE reg.callbacks[n]],
             !.callbacks_initialized = TRUE]

\* ExtensionRegistry.__getattr__, up to the lookup of the callback
ext_getattr(m, self, item) ==
    LET m1 == Pattern_ext(m, self)
        reg == m1.pats[self].extensions
    IN  IF item \notin DOMAIN reg.registry THEN Raise(m1, "AttributeError")
        ELSE LET m2 == [m1 EXCEPT !.pats[self].extensions = initialize_callbacks(reg)]
             IN  IF item \notin DOMAIN m2.pats[self].extensions.callbacks
                 THEN Raise(m2, "KeyError")
                 ELSE m2

\* fn(*args, **kwargs): what the callback returns; r = 0 is a non-Pattern.
\* A "Tag" callback is a copy of the Pattern it was instantiated with, and a
\* Pattern's tokens never change, so its literal is the literal of that Pattern.
Call(m, callback) ==
    CASE callback.factory = "Tag" -> literal(m, callback.pattern, <<"<">>)
      [] callback.factory = "Identity" -> Return(m, callback.pattern)
      [] callback.factory = "NotAPattern" -> Return(m, 0)

ensure_clone_unchecked(m, pattern) ==
    IF m.err # NoError THEN m
    ELSE IF m.r = 0 THEN Raise(m, "ValueError")
    ELSE m

\* the wrapper of ExtensionRegistry._ensure_clone, on the callback's result
ensure_clone(m, pattern) ==
    IF m.err # NoError THEN m
    ELSE IF m.r = 0 THEN Raise(m, "ValueError")
    ELSE IF m.r = pattern THEN Raise(m, "ValueError")
    ELSE m

\* pattern.ext.<item>()
ext_call(m, self, item) ==
    LET m1 == ext_getattr(m, self, item)
    IN  IF m1.err # NoError THEN m1
        ELSE LET reg == m1.pats[self].extensions
             IN  ensure_clone(Call(m1, reg.callbacks[item]), reg.pattern)

(***************************************************************************)
(* Cache (find.py).  The dict _cache is the sequence of its items in       *)
(* insertion order, which is the order Python iterates a dict in.  An      *)
(* operator takes and returns [cache, stats, r] (r: the value returned).   *)
(***************************************************************************)
\* Cache._reset_stats
ZeroStats == [maxsize_reached |-> 0, hits |-> 0, misses |-> 0]

\* Cache.NOT_FOUND
NOT_FOUND == "NOT_FOUND"

Keys(items) == {items[j].key : j \in 1..Len(items)}

\* self._cache[key]
EntryOf(items, key) == (CHOOSE j \in 1..Len(items) : items[j].key = key)

\* del self._cache[key]
Without(items, key) == SelectSeq(items, LAMBDA it : it.key # key)

\* Cache._increment_metric
increment_metric(c, name) == [c EXCEPT !.stats[name] = @ + 1]

Cache_add_checking_first(c, size, key, entry) ==
    LET c1 == IF Len(c.cache) > size
              THEN [increment_metric(c, "maxsize_reached") EXCEPT !.cache = Tail(@)]
              ELSE c
    IN  IF key \in Keys(c1.cache) THEN c1
        ELSE [c1 EXCEPT !.cache = Append(@, [key |-> key, entry |-> entry])]

Cache_add_evicting_newest(c, size, key, entry) ==
    LET c1 == IF key \in Keys(c.cache) THEN c
              ELSE [c EXCEPT !.cache = Append(@, [key |-> key, entry |-> entry])]
    IN  IF Len(c1.cache) > size
        THEN [increment_metric(c1, "maxsize_reached") EXCEPT !.cache = Front(@)]
        ELSE c1

\* Cache.add: setdefault, then the first key of the dict is removed when the
\* dict has grown beyond maxsize
Cache_add(c, size, key, entry) ==
    LET c1 == IF key \in Keys(c.cache) THEN c
              ELSE [c EXCEPT !.cache = Append(@, [key |-> key, entry |-> entry])]
    IN  IF Len(c1.cache) > size
        THEN [increment_metric(c1, "maxsize_reached") EXCEPT !.cache = Tail(@)]
        ELSE c1

Cache_get_dropping_entry(c, size, key) ==
    IF key \in Keys(c.cache)
    THEN LET entry == c.cache[EntryOf(c.cache, key)].entry
             c1 == increment_metric(c, "hits")
             c2 == [c1 EXCEPT !.cache = Without(@, key)]
         IN  [c2 EXCEPT !.r = <<entry, TRUE>>]
    ELSE [increment_metric(c, "misses") EXCEPT !.r = <<NOT_FOUND, FALSE>>]

\* Cache.get: r is the pair (entry, found)
Cache_get(c, size, key) ==
    IF key \in Keys(c.cache)
    THEN LET entry == c.cache[EntryOf(c.cache, key)].entry
             c1 == increment_metric(c, "hits")
             c2 == [c1 EXCEPT !.cache = Without(@, key)]
             c3 == Cache_add(c2, size, key, entry)
         IN  [c3 EXCEPT !.r = <<entry, TRUE>>]
    ELSE [increment_metric(c, "misses") EXCEPT !.r = <<NOT_FOUND, FALSE>>]

\* Cache.clear
Cache_clear(c) == [c EXCEPT !.stats = ZeroStats, !.cache = <<>>]

(***************************************************************************)
(* Substitution (replace.py).  One Substitution object: stack is its list  *)
(* of fragments, lru is the cache functools.lru_cache keeps for replace,   *)
(* keyed by the arguments of the call (the object itself is part of the    *)
(* key, and there is one object).  Fewer than maxsize = 1000 keys are used, *)
(* so the cache drops nothing.  The host engine's sub(template, string,    *)
(* count) is the record of its three arguments.                            *)
(***************************************************************************)
\* Substitution._build
Substitution_build(fragments) == JoinStr(fragments)

\* Substitution.add
Substitution_add(fragments, string) == Append(fragments, string)

\* Substitution.backreference
backreference(fragments, name_or_number) ==
    Append(fragments, "\\g<" \o name_or_number \o ">")

\* the body of Substitution.replace: self.pattern.sub(self._build(), string, count)
replace_body(fragments, string, count) ==
    [template |-> Substitution_build(fragments), string |-> string, count |-> count]

\* Substitution.replace under @lru_cache: a call with arguments seen before
\* returns the value kept for them and does not run the body
replace(memo, fragments, string, count) ==
    LET key == <<string, count>>
    IN  IF key \in DOMAIN memo THEN [r |-> memo[key], lru |-> memo]
        ELSE LET r == replace_body(fragments, string, count)
             IN  [r |-> r, lru |-> DictSet(memo, key, r)]

(***************************************************************************)
(* The state machine of the builder.  The caller holds the Patterns        *)
(* pats[1..Len(pats)]; an operation runs on the machine state made of the  *)
(* two heaps, and what it returns is added to the Patterns held.  Objects  *)
(* nobody holds any more (the temporaries of an operation) are dropped,    *)
(* and FlagSet references are renumbered in the order of their holders.    *)
(***************************************************************************)
SeqRange(s) == {s[j] : j \in 1..Len(s)}

RECURSIVE LiveRefs(_, _)
LiveRefs(ps, acc) ==
    IF ps = <<>> THEN acc
    ELSE LET f == Head(ps).flags
         IN  LiveRefs(Tail(ps), IF f = 0 \/ f \in SeqRange(acc) THEN acc ELSE Append(acc, f))

IndexOf(s, x) == CHOOSE j \in 1..Len(s) : s[j] = x

Renumbered(ps, live) ==
    [j \in 1..Len(ps) |->
        [ps[j] EXCEPT !.flags = IF @ = 0 THEN 0 ELSE IndexOf(live, @)]]

\* the call that made the first Pattern: Pattern()
FirstCall == [op |-> "Pattern", self |-> 0, res |-> 1, err |-> NoError,
              args |-> <<>>, val |-> <<>>]

\* The end of a call that ran from Machine(pats, fsets) to m.  isPattern: the
\* call returns a Pattern (m.r is its object), which the caller then holds.
Commit(op, self, args, m, isPattern, val) ==
    LET n == Len(pats)
        isNew == isPattern /\ m.err = NoError /\ m.r > n
        kept == SubSeq(m.pats, 1, n) \o (IF isNew THEN <<m.pats[m.r]>> ELSE <<>>)
        live == LiveRefs(kept, <<>>)
    IN  /\ isPattern => Len(pats) < cap
        /\ pats' = Renumbered(kept, live)
        /\ fsets' = [j \in 1..Len(live) |-> m.fsets[live[j]]]
        /\ ret' = [op |-> op, self |-> self,
                   res |-> IF ~isPattern \/ m.err # NoError THEN 0
                           ELSE IF isNew THEN n + 1 ELSE m.r,
                   err |-> m.err, args |-> args, val |-> val]
        /\ registered' = IF op = "register"
                         THEN Append(registered, [name |-> args.name,
                                                  factory |-> args.factory,
                                                  on |-> self, at |-> n])
                         ELSE registered
        /\ UNCHANGED <<cap, cacheVars, substitutionVars>>

M0 == Machine(pats, fsets)
Held == 1..Len(pats)

\* inputs of the operations
LiteralTexts == {<<"a", ".">>}
Bare(chars) == [partial |-> FALSE, chars |-> chars]
\* Pattern.ANY_NUMBER: Number()(skip_brackets=True).build()
ANY_NUMBER == [partial |-> TRUE, chars |-> <<"0-9">>]
DefaultKw == [closed |-> FALSE, negated |-> FALSE, skip_brackets |-> FALSE]
RangeKwargs ==
    {DefaultKw, [closed |-> TRUE, negated |-> TRUE, skip_brackets |-> FALSE]}
NumberBounds == {<<0, 9>>, <<3, 1>>}
QuantifyChained == {<<1, Inf>>}
QuantifyAll == (0..MaxQuantify) \X ((0..MaxQuantify) \cup {Inf})
ChainFlags == {IGNORECASE, MULTILINE}

\* Pattern()
NewPattern ==
    Commit("Pattern", 0, <<>>, Expression_init(M0, 0), TRUE, <<>>)

Literal(i, chars) ==
    Commit("literal", i, [string |-> chars], literal(M0, i, chars), TRUE, <<>>)

Whitespace(i, match) ==
    Commit("whitespace", i, [match |-> match], whitespace(M0, i, match), TRUE, <<>>)

AsciiLetters(i, lowercase, kw) ==
    Commit("ascii_letters", i, [lowercase |-> lowercase, kw |-> kw],
           ascii_letters(M0, i, lowercase, kw.closed, kw.negated, kw.skip_brackets),
           TRUE, <<>>)

AnyNumberBetween(i, minimum, maximum, kw) ==
    Commit("any_number_between", i,
           [minimum |-> minimum, maximum |-> maximum, kw |-> kw],
           any_number_between(M0, i, minimum, maximum, kw.closed, kw.negated,
                              kw.skip_brackets),
           TRUE, <<>>)

Quantify(i, minimum, maximum) ==
    Commit("quantify", i, [minimum |-> minimum, maximum |-> maximum],
           quantify(M0, i, minimum, maximum), TRUE, <<>>)

Raw(i, string) ==
    Commit("raw", i, [string |-> string], raw(M0, i, string), TRUE, <<>>)

StartAnchor(i) == Commit("start_anchor", i, <<>>, start_anchor(M0, i), TRUE, <<>>)

EndAnchor(i) == Commit("end_anchor", i, <<>>, end_anchor(M0, i), TRUE, <<>>)

AnyOf(i, members, close) ==
    Commit("any_of", i, [members |-> members, close |-> close],
           any_of(M0, i, members, close), TRUE, <<>>)

NoneOf(i, members) ==
    Commit("none_of", i, [members |-> members], none_of(M0, i, members), TRUE, <<>>)

Group(i, name, optional, wrapped) ==
    Commit("group", i, [name |-> name, optional |-> optional, wrapped |-> wrapped],
           group(M0, i, name, optional, wrapped), TRUE, <<>>)

\* self | other
OrPatterns(i, j) ==
    Commit("or", i, [other |-> j], Pattern_or(M0, i, j), TRUE, <<>>)

\* self + other
Add(i, j) ==
    Commit("add", i, [other |-> j], Expression_add(M0, i, j), TRUE, <<>>)

\* case_insensitive / multiline / dot_matches_newline / ascii_only (enabled=...)
Toggle(i, flag, enabled) ==
    Commit("toggle", i, [flag |-> flag, enabled |-> enabled],
           toggle(M0, i, flag, enabled), TRUE, <<>>)

CloseBracket(i) ==
    Commit("close_bracket", i, <<>>, close_bracket(M0, i), TRUE, <<>>)

\* build(): val records the string and the tokens that were serialized
Build(i) ==
    LET mp == prepare_for_build(M0, i)
        m == build(M0, i)
    IN  Commit("build", i, <<>>, m, FALSE,
               [str |-> m.r, tokens |-> mp.pats[mp.r].token_stack])

\* self == other
Eq(i, j) ==
    LET m == Pattern_eq(M0, i, j)
    IN  Commit("eq", i, [other |-> j], m, FALSE, [eq |-> m.r])

\* self.clone()
Clone(i) ==
    Commit("clone", i, <<>>, clone(M0, i), TRUE, <<>>)

\* self.ext[name] = factory
Register(i, name, factory) ==
    /\ Len(registered) < MaxRegistrations
    /\ Commit("register", i, [name |-> name, factory |-> factory],
              setitem(M0, i, name, factory), FALSE, <<>>)

\* self.ext.<name>(): val records whether the callback was called, the
\* Pattern the registry is bound to and what the callback returned
Invoke(i, name) ==
    LET g == ext_getattr(M0, i, name)
        called == g.err = NoError
        reg == g.pats[i].extensions
        result == Call(g, reg.callbacks[name])
        n == Len(pats)
    IN  Commit("ext", i, [name |-> name], ext_call(M0, i, name), TRUE,
               [called |-> called, bound |-> reg.pattern,
                returned |-> IF ~called THEN 0
                             ELSE IF result.r > n THEN n + 1 ELSE result.r])

\* Pattern.join(delimiter, subpatterns)
Join(delimiter, subpatterns) ==
    Commit("join", 0, [delimiter |-> delimiter, subpatterns |-> subpatterns],
           join(M0, delimiter, subpatterns), TRUE, <<>>)

\* the Pattern the caller built last, or the one the last call returned
Tip == IF ret.op = "build" THEN {ret.self} ELSE {ret.res} \ {0}

InitWith(c) ==
    /\ pats = <<NewObject>>
    /\ fsets = <<>>
    /\ ret = FirstCall
    /\ cap = c
    /\ registered = <<>>
    /\ cache = <<>>
    /\ stats = ZeroStats
    /\ maxsize = DEFAULT_MAXIMUM_SIZE
    /\ touched = <<>>
    /\ cret = [op |-> "init"]
    /\ stack = <<>>
    /\ lru = EmptyDict
    /\ sret = [op |-> "init"]

(***************************************************************************)
(* Spec: chains of all builder operations, and build of their result.      *)
(***************************************************************************)
Init == InitWith(MaxPats)

Next ==
    \/ NewPattern
    \/ \E i \in Held, chars \in LiteralTexts : Literal(i, chars)
    \/ \E i \in Held : Whitespace(i, TRUE)
    \/ \E i \in Held, kw \in RangeKwargs : AsciiLetters(i, kw.closed, kw)
    \/ \E i \in Held, b \in NumberBounds : AnyNumberBetween(i, b[1], b[2], DefaultKw)
    \/ \E i \in Held, q \in QuantifyChained : Quantify(i, q[1], q[2])
    \/ \E i \in Held : Raw(i, "x")
    \/ \E i \in Held : StartAnchor(i)
    \/ \E i \in Held : EndAnchor(i)
    \/ \E i \in Held, close \in BOOLEAN : AnyOf(i, <<ANY_NUMBER, Bare(<<".">>)>>, close)
    \/ \E i \in Held : NoneOf(i, <<Bare(<<"a">>)>>)
    \/ \E i \in Held : Group(i, <<>>, FALSE, 0)
    \/ \E i \in Held, j \in Held : Group(i, <<"n">>, TRUE, j)
    \/ \E i \in Held, j \in Held : OrPatterns(i, j)
    \/ \E i \in Held, j \in Held : Add(i, j)
    \/ \E i \in Held, flag \in ChainFlags : Toggle(i, flag, TRUE)
    \/ \E i \in Held : Toggle(i, IGNORECASE, FALSE)
    \/ \E i \in Tip : Build(i)

Spec == Init /\ [][Next]_vars

(***************************************************************************)
(* BracketSpec: chains of the operations that open and close brackets.     *)
(***************************************************************************)
BracketInit == InitWith(MaxBracketPats)

BracketNext ==
    \/ \E i \in Held, close \in BOOLEAN : AnyOf(i, <<Bare(<<"a">>)>>, close)
    \/ \E i \in Held : NoneOf(i, <<>>)
    \/ \E i \in Held, kw \in RangeKwargs : AsciiLetters(i, TRUE, kw)
    \/ \E i \in Held, chars \in LiteralTexts : Literal(i, chars)
    \/ \E i \in Held, q \in QuantifyChained : Quantify(i, q[1], q[2])
    \/ \E i \in Held : Group(i, <<>>, FALSE, 0)
    \/ \E i \in Held : Group(i, <<"n">>, TRUE, 0)
    \/ \E i \in Held, j \in Held : Add(i, j)
    \/ \E i \in Held : CloseBracket(i)
    \/ \E i \in Tip : Build(i)

BracketSpec == BracketInit /\ [][BracketNext]_vars

\* the same operations with the smaller number of Patterns held
BracketOpsSpec == Init /\ [][BracketNext]_vars

(***************************************************************************)
(* QuantifySpec: quantify with every minimum and maximum up to the bound.  *)
(***************************************************************************)
QuantifyNext ==
    \/ \E i \in Held : AnyOf(i, <<>>, FALSE)
    \/ \E i \in Held, q \in QuantifyAll : Quantify(i, q[1], q[2])

QuantifySpec == Init /\ [][QuantifyNext]_vars

(***************************************************************************)
(* FlagSpec: flag toggles and comparisons of Patterns.                     *)
(***************************************************************************)
FlagNext ==
    \/ NewPattern
    \/ \E i \in Held, flag \in Flags, enabled \in BOOLEAN : Toggle(i, flag, enabled)
    \/ \E i \in Held : AnyOf(i, <<Bare(<<"a">>)>>, TRUE)
    \/ \E i \in Held, chars \in LiteralTexts : Literal(i, chars)
    \/ \E i \in Held, j \in Held : Eq(i, j)

FlagSpec == Init /\ [][FlagNext]_vars

(***************************************************************************)
(* ExtSpec: registration and invocation of extensions, on Patterns made by *)
(* Pattern(), clone() and a builder operation.                             *)
(***************************************************************************)
ExtNames == {"tag", "other"}
\* the registrations made: any factory as "tag", and a second name
Registrations == ({"tag"} \X Factories) \cup {<<"other", "Tag">>}

ExtInit == InitWith(MaxExtPats)

ExtNext ==
    \/ NewPattern
    \/ \E i \in Held : Clone(i)
    \/ \E i \in Held : Literal(i, <<"a">>)
    \/ \E i \in Held, reg \in Registrations : Register(i, reg[1], reg[2])
    \/ \E i \in Held, name \in ExtNames : Invoke(i, name)

ExtSpec == ExtInit /\ [][ExtNext]_vars

(***************************************************************************)
(* JoinSpec: Pattern.join of lists of up to MaxJoin Patterns made of       *)
(* literals.                                                               *)
(***************************************************************************)
JoinLists == UNION {[1..n -> Held] : n \in 0..MaxJoin}

JoinNext ==
    \/ \E i \in Held, chars \in LiteralTexts : Literal(i, chars)
    \/ \E i \in Held : Raw(i, "x")
    \/ \E delimiter \in Held, subpatterns \in JoinLists : Join(delimiter, subpatterns)

JoinSpec == BracketInit /\ [][JoinNext]_vars

(***************************************************************************)
(* NumberSpec: any_number_between with the minimum and maximum at both     *)
(* ends of -1..MaxNumber, on Patterns with and without an open bracket.    *)
(***************************************************************************)
NumberArgs == {-1, 0, 1} \cup ((MaxNumber - 2)..MaxNumber)

NumberNext ==
    \/ \E i \in Held : AnyOf(i, <<>>, FALSE)
    \/ \E i \in Held, minimum \in NumberArgs, maximum \in NumberArgs :
           AnyNumberBetween(i, minimum, maximum, DefaultKw)

NumberSpec == Init /\ [][NumberNext]_vars

(***************************************************************************)
(* What a caller can observe of a held Pattern.                            *)
(***************************************************************************)
FlagsIn(ps, fs, i) == IF ps[i].flags = 0 THEN {} ELSE fs[ps[i].flags]
FlagsOf(i) == FlagsIn(pats, fsets, i)

RECURSIVE CountKind(_, _)
CountKind(tokens, k) ==
    IF tokens = <<>> THEN 0
    ELSE (IF Head(tokens).k = k THEN 1 ELSE 0) + CountKind(Tail(tokens), k)

\* the text and kind of each token, without the identity of the object
TokenValues(tokens) == [j \in 1..Len(tokens) |-> <<tokens[j].k, tokens[j].s>>]

TokenIds(tokens) == {tokens[j].id : j \in 1..Len(tokens)} \ {0}

\* C1: the token sequence build() serializes holds as many ClosingBracket
\* tokens as OpeningBracket tokens, whatever chain of builder operations made
\* the Pattern (also with two or more brackets open at once).
C1_BuildBalancesBrackets ==
    ret.op = "build" =>
        CountKind(ret.val.tokens, "close") = CountKind(ret.val.tokens, "open")

\* C2: no builder operation and no build() changes a Pattern the caller holds
\* (tokens, bracket stack, flag set), whichever Pattern it is called on and
\* whatever is done later with the Pattern it returns; and build() called
\* again on the Pattern just built returns the same string.
C2_ReceiverUnchanged ==
    [][/\ \A i \in Held :
            /\ i <= Len(pats')
            /\ pats'[i].token_stack = pats[i].token_stack
            /\ pats'[i].bracket_stack = pats[i].bracket_stack
            /\ FlagsIn(pats', fsets', i) = FlagsOf(i)
       /\ ret'.op = "build" =>
              build(Machine(pats', fsets'), ret'.self).r = ret'.val.str
       /\ (ret.op = "build" /\ ret'.op = "build" /\ ret'.self = ret.self)
              => ret'.val = ret.val]_vars

C2_Witness ==
    /\ ret.op = "build"
    /\ Len(pats) = 3
    /\ ret.self = 3
    /\ HasOpen(pats[3].bracket_stack)
    /\ FlagsOf(3) = {IGNORECASE}
    /\ ret.val.str = "[0-9\\.]"

NonToggleOps ==
    {"literal", "whitespace", "ascii_letters", "any_number_between", "any_of",
     "none_of", "quantify", "group", "start_anchor", "end_anchor", "raw",
     "add", "or"}

\* C3: the Pattern a builder operation other than a flag toggle returns has
\* exactly the flags of the Pattern it was called on.
C3_FlagsCarried ==
    (ret.op \in NonToggleOps /\ ret.err = NoError) =>
        FlagsOf(ret.res) = FlagsOf(ret.self)

\* the quantifier the rule table gives, first matching rule first
TableQuantifier(minimum, maximum) ==
    CASE minimum = 0 /\ maximum = Inf -> "*"
      [] minimum = 0 /\ maximum = 1 -> "?"
      [] minimum = 1 /\ maximum = Inf -> "+"
      [] minimum # 0 /\ minimum # 1 /\ maximum = Inf -> "{" \o ToString(minimum) \o ",}"
      [] maximum # Inf /\ ~(minimum = 0 /\ maximum = 1) /\ minimum = maximum ->
             "{" \o ToString(minimum) \o "}"
      [] maximum # Inf /\ ~(minimum = 0 /\ maximum = 1) /\ minimum # maximum ->
             "{" \o ToString(minimum) \o "," \o ToString(maximum) \o "}"

\* C4: quantify(minimum, maximum) appends, as the last token of the Pattern it
\* returns, the quantifier of the rule table, for every minimum >= 0 and every
\* maximum that is >= 0 or infinite.
C4_QuantifierTable ==
    ret.op = "quantify" =>
        /\ ret.err = NoError
        /\ LET old == pats[ret.self].token_stack
               new == pats[ret.res].token_stack
           IN  /\ Len(new) >= Len(old) + 1
               /\ SubSeq(new, 1, Len(old)) = old
               /\ Last(new) = Str(TableQuantifier(ret.args.minimum, ret.args.maximum))

C4_Witness ==
    /\ ret.op = "quantify"
    /\ ret.args = [minimum |-> 0, maximum |-> 1]
    /\ HasOpen(pats[ret.self].bracket_stack)
    /\ Last(pats[ret.res].token_stack) = Str("?")

\* C5: the Pattern quantify returns has no open bracket, and when a bracket
\* was open before the call the quantifier comes directly after a
\* ClosingBracket.
C5_QuantifyClosesBracket ==
    (ret.op = "quantify" /\ ret.err = NoError) =>
        LET new == pats[ret.res].token_stack
        IN  /\ ~HasOpen(pats[ret.res].bracket_stack)
            /\ HasOpen(pats[ret.self].bracket_stack) =>
                   (Len(new) >= 2 /\ IsClosingBracket(new[Len(new) - 1]))

\* C8: two Patterns built independently of each other (no token object in
\* common) with the same tokens, kind by kind and text by text, and the same
\* flags compare equal.
C8_EqualByValue ==
    (/\ ret.op = "eq"
     /\ TokenIds(pats[ret.self].token_stack)
            \cap TokenIds(pats[ret.args.other].token_stack) = {}
     /\ TokenValues(pats[ret.self].token_stack)
            = TokenValues(pats[ret.args.other].token_stack)
     /\ FlagsOf(ret.self) = FlagsOf(ret.args.other))
        => ret.val.eq

\* C9: disabling a flag that is not enabled raises no error and returns a
\* Pattern with the same flag set.
C9_DisableAbsentIsNoOp ==
    (ret.op = "toggle" /\ ~ret.args.enabled /\ ret.args.flag \notin FlagsOf(ret.self)) =>
        /\ ret.err = NoError
        /\ FlagsOf(ret.res) = FlagsOf(ret.self)

RECURSIVE BitAt(_, _)
\* bit b of the non-negative integer x
BitAt(x, b) == IF b = 0 THEN x % 2 ELSE BitAt(x \div 2, b - 1)

\* C10: the bitmask of a FlagSet has exactly the bits of the flags enabled in
\* it: 0 for the empty set, and after a flag is enabled (once or again, in any
\* order) the bits of the set before plus the bit of that flag.
C10_BitmaskIsOr ==
    /\ \A i \in Held :
          LET mask == FlagSet_compile(FlagsOf(i))
          IN  /\ \A b \in 0..9 :
                    BitAt(mask, b) = 1 <=> \E f \in FlagsOf(i) : BitAt(f, b) = 1
              /\ FlagsOf(i) = {} => mask = 0
    /\ (ret.op = "toggle" /\ ret.args.enabled) =>
          /\ ret.err = NoError
          /\ FlagsOf(ret.res) = FlagsOf(ret.self) \cup {ret.args.flag}
          /\ \A b \in 0..9 :
                BitAt(FlagSet_compile(FlagsOf(ret.res)), b) =
                    Max2(BitAt(FlagSet_compile(FlagsOf(ret.self)), b),
                         BitAt(ret.args.flag, b))

C10_Witness ==
    /\ ret.op = "toggle"
    /\ ret.args = [flag |-> IGNORECASE, enabled |-> TRUE]
    /\ FlagsOf(ret.self) = {MULTILINE}
    /\ FlagSet_compile(FlagsOf(ret.res)) = 10

(***************************************************************************)
(* CacheSpec: a Cache(maxsize) under add, get and clear.  touched is the   *)
(* history of touches: the key of every insertion and of every get hit, in *)
(* call order.  cret is the last call, with the state it was made in.      *)
(***************************************************************************)
CacheKeys == {"A", "B", "C"}
CacheEntries == {1, 2}

C0 == [cache |-> cache, stats |-> stats, r |-> <<>>]
Before == [cache |-> cache, stats |-> stats]

CacheInit ==
    /\ pats = <<NewObject>>
    /\ fsets = <<>>
    /\ ret = FirstCall
    /\ cap = MaxPats
    /\ registered = <<>>
    /\ cache = <<>>
    /\ stats = ZeroStats
    /\ maxsize \in 0..MaxCacheSize
    /\ touched = <<>>
    /\ cret = [op |-> "init"]
    /\ stack = <<>>
    /\ lru = EmptyDict
    /\ sret = [op |-> "init"]

CacheAdd(key, entry) ==
    LET c == Cache_add(C0, maxsize, key, entry)
        inserts == key \notin Keys(cache)
    IN  /\ inserts => Len(touched) < MaxTouches
        /\ cache' = c.cache
        /\ stats' = c.stats
        /\ touched' = IF inserts THEN Append(touched, key) ELSE touched
        /\ cret' = [op |-> "add", key |-> key, entry |-> entry, before |-> Before]
        /\ UNCHANGED <<maxsize, patternVars, substitutionVars>>

CacheGet(key) ==
    LET c == Cache_get(C0, maxsize, key)
        hit == key \in Keys(cache)
    IN  /\ IF hit THEN Len(touched) < MaxTouches ELSE stats.misses < MaxTouches
        /\ cache' = c.cache
        /\ stats' = c.stats
        /\ touched' = IF hit THEN Append(touched, key) ELSE touched
        /\ cret' = [op |-> "get", key |-> key, r |-> c.r, before |-> Before]
        /\ UNCHANGED <<maxsize, patternVars, substitutionVars>>

CacheClear ==
    LET c == Cache_clear(C0)
    IN  /\ cache' = c.cache
        /\ stats' = c.stats
        /\ cret' = [op |-> "clear"]
        /\ UNCHANGED <<touched, maxsize, patternVars, substitutionVars>>

CacheNext ==
    \/ \E key \in CacheKeys, entry \in CacheEntries : CacheAdd(key, entry)
    \/ \E key \in CacheKeys : CacheGet(key)
    \/ CacheClear

CacheSpec == CacheInit /\ [][CacheNext]_vars

\* the position of the most recent touch of key in the history
LastTouch(key) == CHOOSE j \in 1..Len(touched) :
    touched[j] = key /\ \A l \in (j + 1)..Len(touched) : touched[l] # key

Items(items) == {items[j] : j \in 1..Len(items)}

\* C6: an add of an absent key that takes the store beyond maxsize evicts
\* exactly one entry, the resident key whose most recent touch (insertion or
\* get hit) is the oldest, and adds one to the eviction counter.
C6_EvictsLeastRecentlyTouched ==
    (/\ cret.op = "add"
     /\ cret.key \notin Keys(cret.before.cache)
     /\ Len(cret.before.cache) + 1 > maxsize) =>
        LET resident == Keys(cret.before.cache) \cup {cret.key}
            victim == CHOOSE k \in resident :
                          \A o \in resident : LastTouch(k) <= LastTouch(o)
        IN  /\ Keys(cache) = resident \ {victim}
            /\ Len(cache) = Cardinality(resident) - 1
            /\ \A it \in Items(cache) :
                   it \in Items(cret.before.cache)
                   \/ it = [key |-> cret.key, entry |-> cret.entry]
            /\ stats.maxsize_reached = cret.before.stats.maxsize_reached + 1
            /\ stats.hits = cret.before.stats.hits
            /\ stats.misses = cret.before.stats.misses

\* add A, add B, get(A), add C with maxsize = 2: B is evicted
C6_Witness ==
    /\ maxsize = 2
    /\ touched = <<"A", "B", "A", "C">>
    /\ cret.op = "add"
    /\ cret.key = "C"
    /\ Keys(cret.before.cache) = {"A", "B"}
    /\ Keys(cache) = {"A", "C"}
    /\ stats.maxsize_reached = 1

\* C7: get of a resident key returns (stored value, found), adds one to the
\* hit counter only and keeps the resident keys and their values; get of an
\* absent key returns not found, adds one to the miss counter only and
\* creates no entry.
C7_GetHitAndMiss ==
    cret.op = "get" =>
        IF cret.key \in Keys(cret.before.cache)
        THEN /\ \E it \in Items(cret.before.cache) :
                    it.key = cret.key /\ cret.r = <<it.entry, TRUE>>
             /\ stats = [cret.before.stats EXCEPT !.hits = @ + 1]
             /\ Items(cache) = Items(cret.before.cache)
             /\ Len(cache) = Len(cret.before.cache)
        ELSE /\ cret.r[2] = FALSE
             /\ stats = [cret.before.stats EXCEPT !.misses = @ + 1]
             /\ cache = cret.before.cache

\* a hit that changes the recency order of a full store
C7_Witness ==
    /\ cret.op = "get"
    /\ cret.r[2]
    /\ cret.r[1] = 2
    /\ maxsize = 2
    /\ Len(cache) = 2
    /\ cache # cret.before.cache
    /\ stats.hits = 1

\* the registry of a held Pattern, created on first use
RegistryOf(i) == Pattern_ext(M0, i).pats[i].extensions

\* the operations that return a copy of their receiver
CloningOps == {"clone", "literal"}

\* C11: when a Pattern has just been cloned, by clone() or by a builder
\* operation, every extension registered on it can be invoked on the clone,
\* and the callback invoked is instantiated with the clone.
C11_ExtensionBoundToClone ==
    (ret.op \in CloningOps /\ ret.err = NoError /\ ret.res # ret.self) =>
        \A name \in DOMAIN RegistryOf(ret.self).registry :
            LET g == ext_getattr(M0, ret.res, name)
            IN  /\ g.err = NoError
                /\ g.pats[ret.res].extensions.callbacks[name].pattern = ret.res

\* the factory an invocation of name on Pattern i calls
Resolves(i, name, factory) ==
    LET g == ext_getattr(M0, i, name)
    IN  /\ g.err = NoError
        /\ g.pats[i].extensions.callbacks[name].factory = factory

\* C12: the factory registered last under a name is the one the name
\* resolves to on the instance it was registered on and on every Pattern
\* created or cloned after the registration.
C12_RegistrationProcessWide ==
    \A k \in 1..Len(registered) :
        LET last == registered[k]
        IN  (\A l \in (k + 1)..Len(registered) : registered[l].name # last.name) =>
                \A i \in Held :
                    (i = last.on \/ i > last.at) => Resolves(i, last.name, last.factory)

\* C13: an invocation that calls the callback either raises the
\* contract-violation error (ValueError) and returns nothing, or returns a
\* Pattern that is not the one the registry is bound to; it raises whenever
\* the callback returned a non-Pattern or the bound Pattern itself.
C13_ContractEnforced ==
    (ret.op = "ext" /\ ret.val.called) =>
        /\ \/ ret.err = "ValueError" /\ ret.res = 0
           \/ /\ ret.err = NoError
              /\ ret.res \in Held
              /\ ret.res # ret.val.bound
              /\ ret.res = ret.val.returned
        /\ ret.val.returned \in {0, ret.val.bound} => ret.err = "ValueError"

\* a callback that returned the Pattern it is bound to
C13_Witness ==
    /\ ret.op = "ext"
    /\ ret.val.called
    /\ ret.val.bound \in Held
    /\ ret.val.returned = ret.val.bound
    /\ ret.err = "ValueError"

\* C14 as stated: the bracket stack of A + B is exactly A's bracket stack.
C14_AddKeepsLeftBrackets ==
    (ret.op = "add" /\ ret.err = NoError) =>
        /\ pats[ret.res].token_stack =
               pats[ret.self].token_stack \o pats[ret.args.other].token_stack
        /\ pats[ret.res].bracket_stack = pats[ret.self].bracket_stack

\* C14: A + B is a new expression whose tokens are A's tokens followed by
\* B's tokens and whose bracket stack is A's bracket stack followed by B's
\* bracket stack: the brackets still open in B are open in the result.
C14_AddMergesBrackets ==
    (ret.op = "add" /\ ret.err = NoError) =>
        /\ ret.res = Len(pats)
        /\ ret.res \notin {ret.self, ret.args.other}
        /\ pats[ret.res].token_stack =
               pats[ret.self].token_stack \o pats[ret.args.other].token_stack
        /\ pats[ret.res].bracket_stack =
               pats[ret.self].bracket_stack \o pats[ret.args.other].bracket_stack

\* A + B where both A and B have a bracket open
C14_Witness ==
    /\ ret.op = "add"
    /\ ret.err = NoError
    /\ HasOpen(pats[ret.self].bracket_stack)
    /\ HasOpen(pats[ret.args.other].bracket_stack)
    /\ Len(pats[ret.res].bracket_stack) >= 2
    /\ pats[ret.res].bracket_stack # pats[ret.self].bracket_stack

\* C15: group(name, optional) on P returns '(' , the marker '?P<name>' iff
\* a name is given, P's tokens, one ']' for each bracket open in P, ')' and
\* '?' iff optional; no bracket is open in the result.
C15_GroupWrapsClosed ==
    (ret.op = "group" /\ ret.args.wrapped = 0 /\ ret.err = NoError) =>
        LET name == ret.args.name
            marker == IF name # <<>> THEN <<Str("?P<" \o name[1] \o ">")>> ELSE <<>>
            closing == [j \in 1..Len(pats[ret.self].bracket_stack) |-> <<"close", "]">>]
            optional == IF ret.args.optional THEN <<Str("?")>> ELSE <<>>
        IN  /\ TokenValues(pats[ret.res].token_stack) =
                   TokenValues(<<Str("(")>> \o marker \o pats[ret.self].token_stack)
                   \o closing \o TokenValues(<<Str(")")>> \o optional)
            /\ ~HasOpen(pats[ret.res].bracket_stack)

RECURSIVE Joined(_, _)
\* the tokens of the subpatterns, in list order, with the delimiter's tokens
\* between each two adjacent subpatterns
Joined(delimiter, subpatterns) ==
    IF Len(subpatterns) = 1 THEN pats[subpatterns[1]].token_stack
    ELSE pats[subpatterns[1]].token_stack \o pats[delimiter].token_stack
         \o Joined(delimiter, Tail(subpatterns))

\* C16: Pattern.join of a list of n >= 1 subpatterns returns a Pattern made of
\* all n subpatterns in list order with n - 1 delimiters between them.
C16_JoinKeepsEverySubpattern ==
    (ret.op = "join" /\ Len(ret.args.subpatterns) >= 1) =>
        /\ ret.err = NoError
        /\ pats[ret.res].token_stack = Joined(ret.args.delimiter, ret.args.subpatterns)

\* C17: any_number_between(minimum, maximum) raises InvalidRangeError, and
\* returns no Pattern, iff minimum >= maximum or minimum < 0 or maximum > 9;
\* otherwise it returns a Pattern with the receiver's tokens, an
\* OpeningBracket unless a bracket was open, and the token 'minimum-maximum',
\* the bracket being open.
C17_InvalidRangeRaised ==
    ret.op = "any_number_between" =>
        LET minimum == ret.args.minimum
            maximum == ret.args.maximum
            invalid == minimum >= maximum \/ minimum < 0 \/ maximum > 9
            old == pats[ret.self]
        IN  /\ (ret.err = "InvalidRangeError") <=> invalid
            /\ invalid => ret.res = 0
            /\ ~invalid =>
                   /\ ret.err = NoError
                   /\ ret.res = Len(pats)
                   /\ TokenValues(pats[ret.res].token_stack) =
                          TokenValues(old.token_stack)
                          \o (IF HasOpen(old.bracket_stack) THEN <<>>
                              ELSE <<<<"open", "[">>>>)
                          \o <<<<"str", Dec(minimum) \o "-" \o Dec(maximum)>>>>
                   /\ HasOpen(pats[ret.res].bracket_stack)
                   /\ Len(pats[ret.res].bracket_stack) =
                          Len(old.bracket_stack) + (IF HasOpen(old.bracket_stack) THEN 0 ELSE 1)

\* a maximum beyond 9 is the only reason to refuse the range
C17_Witness ==
    /\ ret.op = "any_number_between"
    /\ ret.args.minimum = 1
    /\ ret.args.maximum = 10
    /\ HasOpen(pats[ret.self].bracket_stack)
    /\ ret.err = "InvalidRangeError"
    /\ ret.res = 0

(***************************************************************************)
(* SubstitutionSpec: add, backreference and replace on one Substitution.   *)
(***************************************************************************)
Fragments == {"x", "-"}
GroupRefs == {"1"}
Subjects == {"s", "t"}
Counts == {0, 1}

SubstitutionAdd(string) ==
    /\ Len(stack) < MaxFragments
    /\ stack' = Substitution_add(stack, string)
    /\ sret' = [op |-> "add", string |-> string]
    /\ UNCHANGED <<lru, patternVars, cacheVars>>

SubstitutionBackreference(name_or_number) ==
    /\ Len(stack) < MaxFragments
    /\ stack' = backreference(stack, name_or_number)
    /\ sret' = [op |-> "backreference", name_or_number |-> name_or_number]
    /\ UNCHANGED <<lru, patternVars, cacheVars>>

SubstitutionReplace(string, count) ==
    LET call == replace(lru, stack, string, count)
    IN  /\ lru' = call.lru
        /\ sret' = [op |-> "replace", string |-> string, count |-> count, r |-> call.r]
        /\ UNCHANGED <<stack, patternVars, cacheVars>>

SubstitutionNext ==
    \/ \E string \in Fragments : SubstitutionAdd(string)
    \/ \E name_or_number \in GroupRefs : SubstitutionBackreference(name_or_number)
    \/ \E string \in Subjects, count \in Counts : SubstitutionReplace(string, count)

SubstitutionSpec == Init /\ [][SubstitutionNext]_vars

\* C18: whatever add / backreference and replace calls came before, replace
\* returns the host substitution made with the template of all the fragments
\* added so far, in the order they were added.
C18_ReplaceUsesCurrentTemplate ==
    sret.op = "replace" =>
        sret.r = [template |-> JoinStr(stack), string |-> sret.string,
                  count |-> sret.count]

\* C19: close_bracket() on an expression with no open bracket returns the
\* same instance and changes nothing; with a bracket open it returns a new
\* expression whose tokens are the old tokens and one ClosingBracket, and
\* whose bracket stack is the old one without its top; the receiver keeps
\* its tokens and its bracket stack.
C19_CloseBracket ==
    [][ret'.op = "close_bracket" =>
          LET i == ret'.self
              new == ret'.res
          IN  /\ ret'.err = NoError
              /\ IF ~HasOpen(pats[i].bracket_stack)
                 THEN new = i /\ pats' = pats
                 ELSE /\ new = Len(pats) + 1
                      /\ Len(pats') = new
                      /\ Front(pats'[new].token_stack) = pats[i].token_stack
                      /\ IsClosingBracket(Last(pats'[new].token_stack))
                      /\ pats'[new].bracket_stack = Front(pats[i].bracket_stack)
                      /\ pats'[i].token_stack = pats[i].token_stack
                      /\ pats'[i].bracket_stack = pats[i].bracket_stack]_vars

\* close_bracket() has returned a new expression for one with a bracket open
C19_Witness ==
    /\ ret.op = "close_bracket"
    /\ ret.res # ret.self
    /\ HasOpen(pats[ret.self].bracket_stack)
    /\ ~HasOpen(pats[ret.res].bracket_stack)
    /\ IsClosingBracket(Last(pats[ret.res].token_stack))

\* C20: the bracket stack of every Pattern holds OpeningBracket markers
\* only, as many as the token sequence has OpeningBracket tokens more than
\* ClosingBracket tokens, and no call raises the internal-consistency error
\* of close_bracket.
C20_BracketStackConsistent ==
    /\ \A i \in Held :
           /\ \A j \in 1..Len(pats[i].bracket_stack) :
                  IsOpeningBracket(pats[i].bracket_stack[j])
           /\ Len(pats[i].bracket_stack) =
                  CountKind(pats[i].token_stack, "open")
                  - CountKind(pats[i].token_stack, "close")
    /\ ret.err # "RuntimeError"

\* a Pattern with a bracket closed, a bracket open and a token prepended
C20_Witness ==
    \E i \in Held :
        /\ CountKind(pats[i].token_stack, "close") >= 1
        /\ HasOpen(pats[i].bracket_stack)
        /\ Head(pats[i].token_stack) = Str("(")

\* C21: a Cache holds at most maxsize entries after every add, get and
\* clear; with maxsize = 0 an add leaves the store empty, the entry inserted
\* being the one evicted; a get hit evicts nothing.
C21_SizeWithinMaxsize ==
    /\ Len(cache) <= maxsize
    /\ (cret.op = "add" /\ maxsize = 0) =>
           /\ cache = <<>>
           /\ stats.maxsize_reached = cret.before.stats.maxsize_reached + 1
    /\ (cret.op = "get" /\ cret.key \in Keys(cret.before.cache)) =>
           /\ stats.maxsize_reached = cret.before.stats.maxsize_reached
           /\ Keys(cache) = Keys(cret.before.cache)

\* an add on a Cache of maxsize 0, after an earlier add
C21_Witness ==
    /\ maxsize = 0
    /\ cret.op = "add"
    /\ cache = <<>>
    /\ stats.maxsize_reached = 2

\* the registry of Pattern i has bound its callbacks
Bound(reg) == reg # NoRegistry /\ reg.callbacks_initialized

\* what a call of the callback of a factory gives, on n Patterns
Outcome(factory, bound, n) ==
    CASE factory = "Tag" -> [returned |-> n + 1, err |-> NoError]
      [] factory = "Identity" -> [returned |-> bound, err |-> "ValueError"]
      [] factory = "NotAPattern" -> [returned |-> 0, err |-> "ValueError"]

\* C22: the callbacks of a registry are bound once, at the first access of a
\* registered name, to the factories registered at that moment; afterwards
\* they never change: the access of a name registered later raises an error
\* without calling anything, and the access of a name re-registered later
\* calls the callback of the factory bound first.
C22_CallbacksBoundOnce ==
    [][\A i \in Held :
         LET old == pats[i].extensions
             new == pats'[i].extensions
             access == ret'.op = "ext" /\ ret'.self = i
         IN  /\ Bound(old) => Bound(new) /\ new.callbacks = old.callbacks
             /\ (Bound(new) /\ ~Bound(old)) =>
                    /\ access
                    /\ old # NoRegistry
                    /\ ret'.args.name \in DOMAIN old.registry
                    /\ new.callbacks =
                           [n \in DOMAIN old.registry |->
                               [factory |-> old.registry[n], pattern |-> old.pattern]]
             /\ (access /\ Bound(old) /\ ret'.args.name \in DOMAIN old.registry) =>
                    IF ret'.args.name \notin DOMAIN old.callbacks
                    THEN /\ ret'.err = "KeyError"
                         /\ ret'.res = 0
                         /\ ~ret'.val.called
                    ELSE LET o == Outcome(old.callbacks[ret'.args.name].factory,
                                          old.pattern, Len(pats))
                         IN  /\ ret'.val.called
                             /\ ret'.val.returned = o.returned
                             /\ ret'.err = o.err
    ]_vars

\* the access of a name registered after the callbacks were bound
C22_Witness ==
    /\ ret.op = "ext"
    /\ ret.err = "KeyError"
    /\ Bound(pats[ret.self].extensions)
    /\ ret.args.name \in DOMAIN pats[ret.self].extensions.registry
    /\ ret.args.name \notin DOMAIN pats[ret.self].extensions.callbacks

\* the access of a name re-registered with another factory after it was bound
C22_WitnessReregistered ==
    /\ ret.op = "ext"
    /\ ret.val.called
    /\ pats[ret.self].extensions.registry[ret.args.name] #
           pats[ret.self].extensions.callbacks[ret.args.name].factory

====
